---------------------------- MODULE Spec2Model ----------------------------
(***************************************************************************)
(* A model of raw2vhd.py (Python 2): the CHS geometry computation, the     *)
(* VHD footer encoder with its two-pass checksum, and convert(), which     *)
(* copies a RAW image to a VHD file and appends the footer.                *)
(*                                                                         *)
(* Python integers are unbounded, TLC's are 32-bit.  Every integer of the  *)
(* program that can exceed 2^31 - 1 (byte sizes, data_offset, the checksum)*)
(* is held as a "wide" value: its base-2^16 digits, least significant      *)
(* first, without leading zero digits.  Sector counts and everything       *)
(* derived from them are below 2^31 for sizes below 2^40 bytes and are     *)
(* plain integers.                                                         *)
(*                                                                         *)
(* A file's content is held run-length encoded: a sequence of              *)
(* <<byte, count>> runs, count > 0, adjacent runs of different bytes.      *)
(* The encoding is canonical, so two files are equal as values exactly     *)
(* when they hold the same bytes in the same order.                        *)
(***************************************************************************)
EXTENDS Integers, Sequences, FiniteSets, TLC

-----------------------------------------------------------------------------
(* Wide (unbounded) non-negative integers as base-2^16 digit sequences.    *)

WBase == 2^16

RECURSIVE WNorm(_)
WNorm(w) ==
    IF w = <<>> THEN <<>>
    ELSE IF w[Len(w)] = 0 THEN WNorm(SubSeq(w, 1, Len(w) - 1))
    ELSE w

\* The wide value of a plain integer 0 <= n < 2^31.
W(n) == WNorm(<<n % WBase, n \div WBase>>)

WDigit(w, j) == IF j + 1 <= Len(w) THEN w[j + 1] ELSE 0

\* The plain integer of a wide value below 2^31.
WInt(w) == WDigit(w, 0) + WBase * WDigit(w, 1)

\* <<w / m, w % m>> for a plain divisor 0 < m < 2^23; the quotient is wide.
\* Long division, one byte of the dividend at a time.
RECURSIVE WDivMod(_, _)
WDivMod(w, m) ==
    IF w = <<>> THEN << <<>>, 0 >>
    ELSE LET hi   == WDivMod(Tail(w), m)
             cur1 == hi[2] * 256 + (w[1] \div 256)
             cur2 == (cur1 % m) * 256 + (w[1] % 256)
         IN  << WNorm(<< (cur1 \div m) * 256 + (cur2 \div m) >> \o hi[1]),
                cur2 % m >>

\* w <= v for wide values.
RECURSIVE WLeq(_, _)
WLeq(w, v) ==
    IF Len(w) # Len(v) THEN Len(w) < Len(v)
    ELSE IF w = <<>> THEN TRUE
    ELSE IF w[Len(w)] # v[Len(v)] THEN w[Len(w)] < v[Len(v)]
    ELSE WLeq(SubSeq(w, 1, Len(w) - 1), SubSeq(v, 1, Len(v) - 1))

\* Bitwise exclusive or of two plain integers below 2^n.
RECURSIVE BitXor(_, _, _)
BitXor(a, b, n) ==
    IF n = 0 THEN 0
    ELSE ((a + b) % 2) + 2 * BitXor(a \div 2, b \div 2, n - 1)

\* Python's ^ on two non-negative integers.
WXor(w, v) ==
    LET n == IF Len(w) > Len(v) THEN Len(w) ELSE Len(v)
    IN  WNorm([j \in 1..n |-> BitXor(WDigit(w, j - 1), WDigit(v, j - 1), 16)])

\* s[lo] + ... + s[hi], by halving (the recursion stays shallow).
RECURSIVE SumRange(_, _, _)
SumRange(s, lo, hi) ==
    IF lo > hi THEN 0
    ELSE IF lo = hi THEN s[lo]
    ELSE LET mid == (lo + hi) \div 2
         IN  SumRange(s, lo, mid) + SumRange(s, mid + 1, hi)

\* sum(bytearray(s))
SumBytes(s) == SumRange(s, 1, Len(s))

-----------------------------------------------------------------------------
(* vhd_chs: the CHS geometry of an image of `size` bytes (a wide value).   *)
(* Python 2's / on integers is floor division; >> 10 and << 10 are         *)
(* division and multiplication by 1024.                                    *)

\* A slip: the clamp of lines 57-58 left out.
chs_sectors_unclamped(size) == WInt(WDivMod(size, 512)[1])

\* sectors = size / 512, clamped at 65535 * 16 * 255.
chs_sectors(size) ==
    LET sectors == WDivMod(size, 512)[1]
    IN  IF ~WLeq(sectors, W(65535 * 16 * 255)) THEN 65535 * 16 * 255
        ELSE WInt(sectors)

\* A slip: > for >=.
chs_large_strict(sectors) == sectors > 65535 * 16 * 63

\* The branch for sectors >= 65535 * 16 * 63.
chs_large(sectors) == sectors >= 65535 * 16 * 63

\* A slip: the division rounded up.
chs_cylinders_up(cylinder_times_heads, heads) ==
    (cylinder_times_heads + heads - 1) \div heads

\* cylinders = cylinder_times_heads / heads
chs_cylinders(cylinder_times_heads, heads) == cylinder_times_heads \div heads

\* Lines 60-84, from the clamped sector count.
chs_of_sectors(sectors) ==
    LET g == IF chs_large(sectors)
             THEN LET sectors_per_track == 255
                      heads == 16
                      cylinder_times_heads == sectors \div sectors_per_track
                  IN  << cylinder_times_heads, heads, sectors_per_track >>
             ELSE LET cth17 == sectors \div 17
                      h0    == (cth17 + 1023) \div 1024
                      h17   == IF h0 < 4 THEN 4 ELSE h0
                      to31  == cth17 >= h17 * 1024 \/ h17 > 16
                      spt1  == IF to31 THEN 31 ELSE 17
                      h1    == IF to31 THEN 16 ELSE h17
                      cth1  == IF to31 THEN sectors \div 31 ELSE cth17
                      to63  == cth1 >= h1 * 1024
                      sectors_per_track    == IF to63 THEN 63 ELSE spt1
                      heads                == IF to63 THEN 16 ELSE h1
                      cylinder_times_heads == IF to63 THEN sectors \div 63
                                              ELSE cth1
                  IN  << cylinder_times_heads, heads, sectors_per_track >>
    IN  << chs_cylinders(g[1], g[2]), g[2], g[3] >>

vhd_chs(size) == chs_of_sectors(chs_sectors(size))

-----------------------------------------------------------------------------
(* struct.pack with the '>' prefix: big-endian, standard sizes, no         *)
(* alignment padding.  A format is a sequence of <<code, count>> items.    *)

\* The value that stands for a raised struct.error (no byte is negative).
StructError == << -1 >>

\* Standard size in bytes of an integer format code.
calcsize(code) ==
    CASE code = "B" -> 1
      [] code = "H" -> 2
      [] code = "I" -> 4
      [] code = "Q" -> 8

\* Whether the wide value w is in the range of an unsigned field of n bytes.
InRange(w, n) ==
    \A j \in 0..(Len(w) - 1) :
        \/ 2 * j + 1 < n
        \/ 2 * j + 1 = n /\ w[j + 1] < 256
        \/ w[j + 1] = 0

\* The n bytes of w, most significant first.
pack_uint(w, n) ==
    [i \in 1..n |->
        LET k == n - i
            d == WDigit(w, k \div 2)
        IN  IF k % 2 = 1 THEN d \div 256 ELSE d % 256]

\* 's' with a count: the bytes, cut or padded with zero bytes to the count.
pack_bytes(s, n) == [i \in 1..n |-> IF i <= Len(s) THEN s[i] ELSE 0]

pack_item(item, v) ==
    IF item[1] = "s" THEN pack_bytes(v, item[2])
    ELSE pack_uint(v, calcsize(item[1]))

item_ok(item, v) == item[1] = "s" \/ InRange(v, calcsize(item[1]))

RECURSIVE pack_all(_, _)
pack_all(fmt, fields) ==
    IF fmt = <<>> THEN <<>>
    ELSE pack_item(fmt[1], fields[1]) \o pack_all(Tail(fmt), Tail(fields))

struct_pack(fmt, fields) ==
    IF \A i \in 1..Len(fmt) : item_ok(fmt[i], fields[i])
    THEN pack_all(fmt, fields)
    ELSE StructError

-----------------------------------------------------------------------------
(* The footer.                                                             *)

\* A slip: the reserved field one byte short.
vhd_footer_format_short ==
    << <<"s", 8>>, <<"I", 1>>, <<"I", 1>>, <<"Q", 1>>, <<"I", 1>>, <<"s", 4>>,
       <<"I", 1>>, <<"s", 4>>, <<"Q", 1>>, <<"Q", 1>>, <<"H", 1>>, <<"B", 1>>,
       <<"B", 1>>, <<"I", 1>>, <<"I", 1>>, <<"s", 16>>, <<"B", 1>>, <<"s", 426>> >>

\* '>8sIIQI4sI4sQQHBBII16sB427s'
vhd_footer_format ==
    << <<"s", 8>>, <<"I", 1>>, <<"I", 1>>, <<"Q", 1>>, <<"I", 1>>, <<"s", 4>>,
       <<"I", 1>>, <<"s", 4>>, <<"Q", 1>>, <<"Q", 1>>, <<"H", 1>>, <<"B", 1>>,
       <<"B", 1>>, <<"I", 1>>, <<"I", 1>>, <<"s", 16>>, <<"B", 1>>, <<"s", 427>> >>

\* A slip: the sum returned without the complement.
vhd_footer_checksum_plain(footer) == W(SumBytes(footer))

\* checksum = sum(bytearray(footer)); return checksum ^ 0xFFFFFFFF
vhd_footer_checksum(footer) == WXor(W(SumBytes(footer)), <<65535, 65535>>)

\* footer_fields with checksum = 0 (lines 100-136); unique_id is the value
\* uuid.uuid4().bytes returned.
footer_fields(raw_file_size, unique_id) ==
    LET cookie              == <<99, 111, 110, 101, 99, 116, 105, 120>>
        features            == W(2)
        file_format_version == W(65536)
        data_offset         == <<65535, 65535, 65535, 65535>>
        time_stamp          == W(0)
        creator_application == <<119, 105, 110, 32>>
        creator_version     == W(6 * 65536 + 3)
        creator_host_os     == <<87, 105, 50, 107>>
        original_size       == raw_file_size
        current_size        == original_size
        chs                 == vhd_chs(current_size)
        disk_type           == W(2)
        checksum            == W(0)
        saved_state         == W(0)
        reserved            == [i \in 1..427 |-> 0]
    IN  << cookie, features, file_format_version, data_offset, time_stamp,
           creator_application, creator_version, creator_host_os,
           original_size, current_size, W(chs[1]), W(chs[2]), W(chs[3]),
           disk_type, checksum, unique_id, saved_state, reserved >>

\* A slip: the index off by one, the checksum put in disk_type.
set_checksum_off(fields, checksum) == [fields EXCEPT ![14] = checksum]

\* footer_fields[14] = checksum (Python indexes from 0).
set_checksum(fields, checksum) == [fields EXCEPT ![15] = checksum]

vhd_footer(raw_file_size, unique_id) ==
    LET fields     == footer_fields(raw_file_size, unique_id)
        footer_tmp == struct_pack(vhd_footer_format, fields)
    IN  IF footer_tmp = StructError THEN StructError
        ELSE struct_pack(vhd_footer_format,
                         set_checksum(fields, vhd_footer_checksum(footer_tmp)))

-----------------------------------------------------------------------------
(* Files.  A file is [exists, data]; data is the run-length encoded        *)
(* content.                                                                *)

NoFile == [exists |-> FALSE, data |-> <<>>]
MkFile(data) == [exists |-> TRUE, data |-> data]

RECURSIVE data_size(_)
data_size(data) ==
    IF data = <<>> THEN 0 ELSE data[1][2] + data_size(Tail(data))

\* data followed by n bytes of value b.
append_run(data, b, n) ==
    IF n = 0 THEN data
    ELSE IF data # <<>> /\ data[Len(data)][1] = b
    THEN [data EXCEPT ![Len(data)] = << b, data[Len(data)][2] + n >>]
    ELSE Append(data, << b, n >>)

\* file.write(buf): data followed by the bytes of buf (runs of a canonical
\* encoding, so only the two runs at the seam can merge).
write(data, buf) ==
    IF buf = <<>> THEN data
    ELSE append_run(data, buf[1][1], buf[1][2]) \o Tail(buf)

Min(a, b) == IF a < b THEN a ELSE b

\* file.read(n) at offset pos: the bytes pos .. pos + n - 1 that exist (runs).
RECURSIVE read(_, _, _)
read(data, pos, n) ==
    IF data = <<>> \/ n = 0 THEN <<>>
    ELSE IF pos >= data[1][2] THEN read(Tail(data), pos - data[1][2], n)
    ELSE LET take == Min(n, data[1][2] - pos)
         IN  << << data[1][1], take >> >> \o read(Tail(data), 0, n - take)

\* The run-length encoding of the bytes s[lo..hi], by halving.
RECURSIVE rle(_, _, _)
rle(s, lo, hi) ==
    IF lo > hi THEN <<>>
    ELSE IF lo = hi THEN << << s[lo], 1 >> >>
    ELSE LET mid == (lo + hi) \div 2
         IN  write(rle(s, lo, mid), rle(s, mid + 1, hi))

\* The content written by file.write(s) for a byte string s.
bytes_data(s) == rle(s, 1, Len(s))

\* The byte at offset i (from 0) of a content that has it.
RECURSIVE byte_at(_, _)
byte_at(data, i) ==
    IF i < data[1][2] THEN data[1][1] ELSE byte_at(Tail(data), i - data[1][2])

\* The n bytes from offset pos, as a byte sequence.
data_bytes(data, pos, n) == [i \in 1..n |-> byte_at(data, pos + i - 1)]

-----------------------------------------------------------------------------
(* Bounds of the model.                                                    *)

\* Size of the aligned RAW image, in MB.
ImageMB == 2
\* Conversions in one behaviour.
MaxRuns == 2
\* Bytes a failing write may have put in the file before it raised.
PartialLen == 100
\* Half-width of the windows of sector counts around the branch thresholds.
Window == 8
\* Number of sector counts drawn from each of the two grids.
GridPoints == 300

-----------------------------------------------------------------------------
(* The inputs.                                                             *)

MB == 1024 * 1024

Paths == {"a", "b"}

\* An aligned image of zeros.
RawZero == << <<0, ImageMB * MB>> >>
\* An aligned image: a first byte, zeros, and a two-byte signature at the end.
RawImage == << <<235, 1>>, <<0, ImageMB * MB - 3>>, <<85, 1>>, <<170, 1>> >>
\* An empty image (0 is a multiple of 1 MB).
RawEmpty == <<>>
\* One byte over 1 MB.
RawOver == << <<0, MB + 1>> >>
\* A multiple of 1 KB that is no multiple of 1 MB.
RawKB == << <<7, 2 * 1024>> >>
\* What a file at the output path may hold before the conversion.
OldData == << <<1, 10>> >>

\* Values uuid.uuid4().bytes may return; the first and the third have the
\* same byte sum.
UniqueIds ==
    { << 18, 52, 86, 120, 154, 188, 77, 239, 129, 35, 69, 103, 137, 171, 205, 239 >>,
      << 255, 255, 255, 255, 255, 255, 79, 255, 191, 255, 255, 255, 255, 255, 255, 255 >>,
      << 19, 51, 86, 120, 154, 188, 77, 239, 129, 35, 69, 103, 137, 171, 205, 239 >> }

\* size = sectors * 512 + r as a wide value, for sectors < 2^31, r < 512.
SizeOf(sectors, r) ==
    WNorm(<< (sectors % 128) * 512 + r, (sectors \div 128) % WBase,
             sectors \div (128 * WBase) >>)

\* Sector counts at which vhd_chs changes branch.
Thresholds ==
    { 0, 2 * 1024, 17 * 4 * 1024, 17 * 16 * 1024, 31 * 16 * 1024,
      65535 * 16 * 63, 65535 * 16 * 255 }

SectorCounts ==
    { t + d : t \in Thresholds, d \in 0..Window }
    \cup { t - d : t \in Thresholds \ {0}, d \in 1..Window }
    \cup { k * 2053 : k \in 1..GridPoints }
    \cup { k * 1000003 : k \in 1..GridPoints }

Sizes ==
    { SizeOf(n, 0) : n \in SectorCounts }
    \cup { SizeOf(n, r) : n \in Thresholds, r \in {1, 511} }

-----------------------------------------------------------------------------
(* The state.                                                              *)

VARIABLES
    fs,             \* the file system: path -> file
    pc,             \* where the program is
    raw_file,       \* convert's arguments
    vhd_file,
    raw_file_size,  \* os.path.getsize(raw_file), a wide value
    open,           \* the file objects convert holds open, among "raw", "vhd"
    pos,            \* read offset of the raw file object
    unique_id,      \* uuid.uuid4().bytes of the current footer
    chs,            \* the geometry vhd_chs returned
    footer,         \* the footer vhd_footer returned
    result,         \* the exception convert raised, or "none"
    log,            \* the steps of the current conversion, in order
    fs0,            \* the file system when the current conversion began
    prev,           \* the previous successful conversion
    runs            \* conversions begun

vars == << fs, pc, raw_file, vhd_file, raw_file_size, open, pos, unique_id,
           chs, footer, result, log, fs0, prev, runs >>

NoPrev == [valid |-> FALSE, raw_file |-> "a", vhd_file |-> "a", raw |-> <<>>,
           out |-> <<>>, unique_id |-> <<>>]

Init ==
    /\ fs \in { [p \in Paths |-> IF p = "a" THEN fa ELSE fb] :
                  fa \in { MkFile(RawImage), MkFile(RawZero), MkFile(RawEmpty),
                           MkFile(RawOver), MkFile(RawKB) },
                  fb \in { NoFile, MkFile(OldData), MkFile(RawImage) } }
    /\ pc = "idle"
    /\ raw_file = "a"
    /\ vhd_file = "a"
    /\ raw_file_size = <<>>
    /\ open = {}
    /\ pos = 0
    /\ unique_id = <<>>
    /\ chs = <<>>
    /\ footer = <<>>
    /\ result = "none"
    /\ log = <<>>
    /\ fs0 = fs
    /\ prev = NoPrev
    /\ runs = 0

-----------------------------------------------------------------------------
(* convert(raw_file, vhd_file).                                            *)

\* The record of the conversion that has just returned.
ThisRun ==
    [valid |-> TRUE, raw_file |-> raw_file, vhd_file |-> vhd_file,
     raw |-> fs0[raw_file].data, out |-> fs[vhd_file].data,
     unique_id |-> unique_id]

\* main() calls convert with the two paths of the command line.  A new
\* invocation follows only a conversion that returned: an exception ends
\* the behaviour.
Call(r, v) ==
    /\ pc \in {"idle", "done"}
    /\ runs < MaxRuns
    /\ raw_file' = r
    /\ vhd_file' = v
    /\ prev' = IF pc = "done" THEN ThisRun ELSE prev
    /\ fs0' = fs
    /\ runs' = runs + 1
    /\ pc' = "getsize"
    /\ raw_file_size' = <<>>
    /\ pos' = 0
    /\ unique_id' = <<>>
    /\ chs' = <<>>
    /\ footer' = <<>>
    /\ result' = "none"
    /\ log' = <<>>
    /\ UNCHANGED << fs, open >>

\* An exception leaves convert: the program ends with the error.
Raise(e) ==
    /\ result' = e
    /\ pc' = "failed"

\* A slip: the file object opened without with, and never closed.
WithExitLeak(held, h) == held

\* Leaving a with block closes its file object, on every way out.
WithExit(held, h) == held \ {h}

\* raw_file_size = os.path.getsize(raw_file)
GetSize ==
    /\ pc = "getsize"
    /\ IF fs[raw_file].exists
       THEN /\ raw_file_size' = W(data_size(fs[raw_file].data))
            /\ pc' = "check"
            /\ UNCHANGED result
       ELSE /\ Raise("OSError")
            /\ UNCHANGED raw_file_size
    /\ UNCHANGED << fs, raw_file, vhd_file, open, pos, unique_id, chs, footer,
                    log, fs0, prev, runs >>

\* A slip: the parentheses left out, raw_file_size % 1024 * 1024 != 0.
misaligned_kb(size) == WDivMod(size, 1024)[2] * 1024 # 0

\* raw_file_size % (1024 * 1024) != 0
misaligned(size) == WDivMod(size, 1024 * 1024)[2] # 0

CheckSize ==
    /\ pc = "check"
    /\ log' = Append(log, "size_check")
    /\ IF misaligned(raw_file_size)
       THEN Raise("SizeAlignmentError")
       ELSE pc' = "open_vhd" /\ UNCHANGED result
    /\ UNCHANGED << fs, raw_file, vhd_file, raw_file_size, open, pos,
                    unique_id, chs, footer, fs0, prev, runs >>

\* open(vhd_file, 'wb'): the file is created or truncated.
OpenVhd ==
    /\ pc = "open_vhd"
    /\ fs' = [fs EXCEPT ![vhd_file] = MkFile(<<>>)]
    /\ open' = open \cup {"vhd"}
    /\ log' = Append(log, "open_vhd")
    /\ pc' = "open_raw"
    /\ UNCHANGED << raw_file, vhd_file, raw_file_size, pos, unique_id, chs,
                    footer, result, fs0, prev, runs >>

\* open(vhd_file, 'wb') raises (no permission, no directory): nothing is
\* created or truncated.
OpenVhdFail ==
    /\ pc = "open_vhd"
    /\ Raise("IOError")
    /\ UNCHANGED << fs, raw_file, vhd_file, raw_file_size, open, pos,
                    unique_id, chs, footer, log, fs0, prev, runs >>

\* open(raw_file, 'rb')
OpenRaw ==
    /\ pc = "open_raw"
    /\ open' = open \cup {"raw"}
    /\ pos' = 0
    /\ log' = Append(log, "open_raw")
    /\ pc' = "copy"
    /\ UNCHANGED << fs, raw_file, vhd_file, raw_file_size, unique_id, chs,
                    footer, result, fs0, prev, runs >>

\* open(raw_file, 'rb') raises (the file is not readable): the outer with
\* closes vhd.
OpenRawFail ==
    /\ pc = "open_raw"
    /\ open' = WithExit(open, "vhd")
    /\ log' = Append(log, "close_vhd")
    /\ Raise("IOError")
    /\ UNCHANGED << fs, raw_file, vhd_file, raw_file_size, pos, unique_id,
                    chs, footer, fs0, prev, runs >>

\* shutil.copyfileobj's buffer length.
CopyLength == 16 * 1024

\* What fsrc.read(length) returns.
NextBuf == read(fs[raw_file].data, pos, CopyLength)

\* One turn of copyfileobj's loop: buf = fsrc.read(length); fdst.write(buf)
CopyChunk ==
    /\ pc = "copy"
    /\ NextBuf # <<>>
    /\ fs' = [fs EXCEPT ![vhd_file].data = write(@, NextBuf)]
    /\ pos' = pos + data_size(NextBuf)
    /\ UNCHANGED << pc, raw_file, vhd_file, raw_file_size, open, unique_id,
                    chs, footer, result, log, fs0, prev, runs >>

\* buf is empty: the loop ends, and the inner with closes raw.
CopyEnd ==
    /\ pc = "copy"
    /\ NextBuf = <<>>
    /\ open' = WithExit(open, "raw")
    /\ log' = log \o << "copy", "close_raw" >>
    /\ pc' = "gen_footer"
    /\ UNCHANGED << fs, raw_file, vhd_file, raw_file_size, pos, unique_id,
                    chs, footer, result, fs0, prev, runs >>

\* A slip: the exception of the copy swallowed, and the footer written
\* after the bytes copied so far.
CopySwallow(n) ==
    /\ pc = "copy"
    /\ fs' = [fs EXCEPT ![vhd_file].data =
                  write(@, read(fs[raw_file].data, pos, Min(n, CopyLength)))]
    /\ open' = open \ {"raw"}
    /\ log' = Append(log, "close_raw")
    /\ pc' = "gen_footer"
    /\ UNCHANGED << raw_file, vhd_file, raw_file_size, pos, unique_id, chs,
                    footer, result, fs0, prev, runs >>

\* The read or the write raises; a failing write may have written the first
\* n bytes of buf.  Both with blocks close their file objects.
CopyFail(n) ==
    /\ pc = "copy"
    /\ fs' = [fs EXCEPT ![vhd_file].data =
                  write(@, read(fs[raw_file].data, pos, Min(n, CopyLength)))]
    /\ open' = WithExit(WithExit(open, "raw"), "vhd")
    /\ log' = log \o << "close_raw", "close_vhd" >>
    /\ Raise("IOError")
    /\ UNCHANGED << raw_file, vhd_file, raw_file_size, pos, unique_id, chs,
                    footer, fs0, prev, runs >>

\* footer = vhd_footer(raw_file_size); a struct.error leaves through the
\* outer with.
GenFooter(uid) ==
    /\ pc = "gen_footer"
    /\ unique_id' = uid
    /\ chs' = vhd_chs(raw_file_size)
    /\ footer' = vhd_footer(raw_file_size, uid)
    /\ IF footer' = StructError
       THEN /\ open' = WithExit(open, "vhd")
            /\ log' = Append(log, "close_vhd")
            /\ Raise("struct.error")
       ELSE /\ pc' = "write_footer"
            /\ UNCHANGED << open, log, result >>
    /\ UNCHANGED << fs, raw_file, vhd_file, raw_file_size, pos, fs0, prev,
                    runs >>

\* vhd.write(footer), and the outer with closes vhd: convert returns.
WriteFooter ==
    /\ pc = "write_footer"
    /\ fs' = [fs EXCEPT ![vhd_file].data = write(@, bytes_data(footer))]
    /\ open' = WithExit(open, "vhd")
    /\ log' = log \o << "write_footer", "close_vhd" >>
    /\ pc' = "done"
    /\ UNCHANGED << raw_file, vhd_file, raw_file_size, pos, unique_id, chs,
                    footer, result, fs0, prev, runs >>

\* vhd.write(footer) raises after n bytes (disk full); the outer with
\* closes vhd.
WriteFooterFail(n) ==
    /\ pc = "write_footer"
    /\ fs' = [fs EXCEPT ![vhd_file].data =
                  write(@, bytes_data(SubSeq(footer, 1, n)))]
    /\ open' = WithExit(open, "vhd")
    /\ log' = Append(log, "close_vhd")
    /\ Raise("IOError")
    /\ UNCHANGED << raw_file, vhd_file, raw_file_size, pos, unique_id, chs,
                    footer, fs0, prev, runs >>

Next ==
    \/ \E r \in Paths, v \in Paths : Call(r, v)
    \/ GetSize
    \/ CheckSize
    \/ OpenVhd
    \/ OpenVhdFail
    \/ OpenRaw
    \/ OpenRawFail
    \/ CopyChunk
    \/ CopyEnd
    \/ \E n \in {0, PartialLen} : CopyFail(n)
    \/ \E uid \in UniqueIds : GenFooter(uid)
    \/ WriteFooter
    \/ \E n \in {0, PartialLen} : WriteFooterFail(n)

Spec == Init /\ [][Next]_vars

-----------------------------------------------------------------------------
(* The pure functions on their own: vhd_chs and vhd_footer applied to      *)
(* sizes up to and beyond the largest CHS volume.                          *)

InitFooter ==
    /\ raw_file_size \in Sizes
    /\ pc = "args"
    /\ fs = [p \in Paths |-> NoFile]
    /\ raw_file = "a"
    /\ vhd_file = "a"
    /\ open = {}
    /\ pos = 0
    /\ unique_id = <<>>
    /\ chs = <<>>
    /\ footer = <<>>
    /\ result = "none"
    /\ log = <<>>
    /\ fs0 = fs
    /\ prev = NoPrev
    /\ runs = 0

\* (cylinders, heads, sectors_per_track) = vhd_chs(current_size)
CallChs ==
    /\ pc = "args"
    /\ chs' = vhd_chs(raw_file_size)
    /\ pc' = "chs"
    /\ UNCHANGED << fs, raw_file, vhd_file, raw_file_size, open, pos,
                    unique_id, footer, result, log, fs0, prev, runs >>

\* footer = vhd_footer(raw_file_size)
CallFooter(uid) ==
    /\ pc = "chs"
    /\ unique_id' = uid
    /\ footer' = vhd_footer(raw_file_size, uid)
    /\ pc' = "footer"
    /\ UNCHANGED << fs, raw_file, vhd_file, raw_file_size, open, pos, chs,
                    result, log, fs0, prev, runs >>

NextFooter ==
    \/ CallChs
    \/ \E uid \in UniqueIds : CallFooter(uid)

SpecFooter == InitFooter /\ [][NextFooter]_vars

-----------------------------------------------------------------------------
(* Reading a footer back: the layout of the VHD footer as the format       *)
(* specification gives it, independent of struct_pack.                     *)

FieldWidths == << 8, 4, 4, 8, 4, 4, 4, 4, 8, 8, 2, 1, 1, 4, 4, 16, 1, 427 >>

\* Offset (from 1) of the first byte of field k.
FieldStart(k) == 1 + SumRange(FieldWidths, 1, k - 1)

\* The bytes of field k of a 512-byte footer f.
Field(f, k) == SubSeq(f, FieldStart(k), FieldStart(k) + FieldWidths[k] - 1)

\* The wide value of a big-endian unsigned integer.
UIntOf(b) ==
    LET n == Len(b)
    IN  WNorm([j \in 1..((n + 1) \div 2) |->
                  b[n - 2 * (j - 1)]
                  + (IF n - 2 * (j - 1) - 1 >= 1
                     THEN 256 * b[n - 2 * (j - 1) - 1] ELSE 0)])

\* 0xFFFFFFFF - s for a plain 0 <= s < 2^31: the complement within 32 bits.
Complement32(s) == WNorm(<< 65535 - (s % WBase), 65535 - (s \div WBase) >>)

SectorAligned(size) == WDivMod(size, 512)[2] = 0

\* The last 512 bytes of a content, and what precedes them.
Trailer(data) == data_bytes(data, data_size(data) - 512, 512)
Body(data) == read(data, 0, data_size(data) - 512)

-----------------------------------------------------------------------------
(* The claims.                                                             *)

\* C1: a convert that returns leaves at vhd_file the bytes of the raw image
\* in order, then the 512-byte footer: the size is the raw size + 512 and
\* the footer's original size and current size are the raw size.
C1_OutputIsRawThenFooter ==
    pc = "done" =>
        LET raw == fs0[raw_file].data
            out == fs[vhd_file].data
        IN  /\ data_size(out) = data_size(raw) + 512
            /\ Body(out) = raw
            /\ UIntOf(Field(Trailer(out), 9)) = W(data_size(raw))
            /\ UIntOf(Field(Trailer(out), 10)) = W(data_size(raw))

\* C2: when the raw image size is no multiple of 1,048,576, convert raises
\* the alignment error and never touches the file system: vhd_file keeps
\* its content if it existed and stays absent if it did not.
C2_MisalignedTouchesNothing ==
    ( /\ pc \in {"check", "open_vhd", "open_raw", "copy", "gen_footer",
                 "write_footer", "done", "failed"}
      /\ data_size(fs0[raw_file].data) % MB # 0 )
    => /\ fs = fs0
       /\ open = {}
       /\ pc \in {"check", "failed"}
       /\ pc = "failed" => result = "SizeAlignmentError"

C2_Witness ==
    /\ pc = "failed"
    /\ result = "SizeAlignmentError"
    /\ data_size(fs0[raw_file].data) = MB + 1
    /\ raw_file # vhd_file
    /\ fs[vhd_file] = MkFile(OldData)

\* C3: in every footer vhd_footer returns, the checksum field holds the
\* complement within 32 bits of the sum of the 512 bytes taken with the
\* checksum field zeroed, and packing it never fails.
C3_ChecksumRecomputes ==
    pc = "footer" =>
        /\ footer # StructError
        /\ Len(footer) = 512
        /\ LET zeroed == [i \in 1..512 |->
                             IF i \in 65..68 THEN 0 ELSE footer[i]]
           IN  UIntOf(SubSeq(footer, 65, 68)) = Complement32(SumBytes(zeroed))

C3_Witness ==
    /\ pc = "footer"
    /\ raw_file_size = SizeOf(65535 * 16 * 255 + 1, 0)
    /\ SumBytes(unique_id) > 3000
    /\ SubSeq(footer, 65, 66) = << 255, 255 >>

\* C4: for every size that is a multiple of 512, vhd_chs returns cylinders
\* in 0..65535, heads in 4..16 and sectors_per_track in {17, 31, 63, 255}.
C4_GeometryInFieldRange ==
    (pc \in {"chs", "footer"} /\ SectorAligned(raw_file_size)) =>
        /\ chs[1] \in 0..65535
        /\ chs[2] \in 4..16
        /\ chs[3] \in {17, 31, 63, 255}

C4_Witness ==
    /\ pc = "chs"
    /\ SectorAligned(raw_file_size)
    /\ ~WLeq(raw_file_size, SizeOf(65535 * 16 * 255, 0))
    /\ chs = << 65535, 16, 255 >>

\* C5: for every size that is a multiple of 512, the geometry describes no
\* more than the image holds: cylinders * heads * sectors_per_track * 512
\* <= size, and the product is at most 65535 * 16 * 255.
C5_GeometryWithinImage ==
    (pc \in {"chs", "footer"} /\ SectorAligned(raw_file_size)) =>
        /\ chs[1] * chs[2] * chs[3] <= 65535 * 16 * 255
        /\ WLeq(SizeOf(chs[1] * chs[2] * chs[3], 0), raw_file_size)

C5_Witness ==
    /\ pc = "chs"
    /\ raw_file_size = SizeOf(17 * 4 * 1024 - 1, 0)
    /\ chs[1] * chs[2] * chs[3] < 17 * 4 * 1024 - 1
    /\ chs[1] * chs[2] * chs[3] > 0

\* C6, as claimed: for the size 512 * 65535 * 16 * 63 the geometry has
\* sectors_per_track = 63 and heads = 16.
C6_BoundaryIs63 ==
    (pc = "chs" /\ raw_file_size = SizeOf(65535 * 16 * 63, 0)) =>
        chs[3] = 63 /\ chs[2] = 16

\* C6, amended: for the size 512 * 65535 * 16 * 63 the geometry is
\* cylinders = 16191, heads = 16, sectors_per_track = 255; one sector below
\* it is cylinders = 65534, heads = 16, sectors_per_track = 63.
C6_BoundaryIs255 ==
    /\ (pc = "chs" /\ raw_file_size = SizeOf(65535 * 16 * 63, 0)) =>
           chs = << 16191, 16, 255 >>
    /\ (pc = "chs" /\ raw_file_size = SizeOf(65535 * 16 * 63 - 1, 0)) =>
           chs = << 65534, 16, 63 >>

C6_Witness ==
    /\ pc = "chs"
    /\ raw_file_size = SizeOf(65535 * 16 * 63, 0)
    /\ chs[3] = 255

\* Two conversions in a row that returned, of raw images with the same
\* content.
SameImageTwice ==
    /\ pc = "done"
    /\ prev.valid
    /\ prev.raw = fs0[raw_file].data

\* C7, as claimed: two successive conversions of the same raw image produce
\* the same body and footers equal in every byte outside unique id (bytes
\* 69..84), the checksum included.
C7_OnlyUniqueIdDiffers ==
    SameImageTwice =>
        LET f1 == Trailer(prev.out)
            f2 == Trailer(fs[vhd_file].data)
        IN  /\ Body(prev.out) = Body(fs[vhd_file].data)
            /\ \A i \in (1..512) \ (69..84) : f1[i] = f2[i]

\* C7, amended: the footers of two successive conversions of the same raw
\* image are equal in every byte outside checksum and unique id (bytes
\* 65..84); the checksums are equal exactly when the byte sums of the two
\* unique ids are; each body is the raw image when vhd_file is another path
\* than raw_file, and empty when it is the same path.
C7_UniqueIdAndChecksumDiffer ==
    SameImageTwice =>
        LET f1 == Trailer(prev.out)
            f2 == Trailer(fs[vhd_file].data)
        IN  /\ \A i \in (1..512) \ (65..84) : f1[i] = f2[i]
            /\ Field(f1, 15) = Field(f2, 15)
                   <=> SumBytes(prev.unique_id) = SumBytes(unique_id)
            /\ Field(f1, 16) = prev.unique_id
            /\ Field(f2, 16) = unique_id
            /\ Body(prev.out) =
                   IF prev.raw_file = prev.vhd_file THEN <<>> ELSE prev.raw
            /\ Body(fs[vhd_file].data) =
                   IF raw_file = vhd_file THEN <<>> ELSE prev.raw

C7_Witness ==
    /\ SameImageTwice
    /\ prev.raw = RawImage
    /\ prev.raw_file # prev.vhd_file
    /\ raw_file # vhd_file
    /\ SumBytes(prev.unique_id) # SumBytes(unique_id)
    /\ Field(Trailer(prev.out), 15) # Field(Trailer(fs[vhd_file].data), 15)
    /\ Body(prev.out) = Body(fs[vhd_file].data)

\* C8: vhd_footer returns exactly 512 bytes: the fields, of widths 8, 4, 4,
\* 8, 4, 4, 4, 4, 8, 8, 2, 1, 1, 4, 4, 16, 1, 427, follow each other without
\* padding in the placeholder pass and in the final pass; the checksum is
\* bytes 64..67 (from 0), and the two passes differ in no other byte.
C8_FooterLayout ==
    pc = "footer" =>
        LET tmp == struct_pack(vhd_footer_format,
                               footer_fields(raw_file_size, unique_id))
        IN  /\ Len(footer) = 512
            /\ Len(tmp) = 512
            /\ FieldStart(15) = 65
            /\ \A i \in (1..512) \ (65..68) : footer[i] = tmp[i]
            /\ Field(tmp, 15) = << 0, 0, 0, 0 >>
            /\ Field(footer, 1) = << 99, 111, 110, 101, 99, 116, 105, 120 >>
            /\ Field(footer, 2) = << 0, 0, 0, 2 >>
            /\ Field(footer, 3) = << 0, 1, 0, 0 >>
            /\ Field(footer, 4) = [i \in 1..8 |-> 255]
            /\ Field(footer, 5) = << 0, 0, 0, 0 >>
            /\ Field(footer, 6) = << 119, 105, 110, 32 >>
            /\ Field(footer, 7) = << 0, 6, 0, 3 >>
            /\ Field(footer, 8) = << 87, 105, 50, 107 >>
            /\ UIntOf(Field(footer, 9)) = raw_file_size
            /\ UIntOf(Field(footer, 10)) = raw_file_size
            /\ UIntOf(Field(footer, 11)) = W(chs[1])
            /\ Field(footer, 12) = << chs[2] >>
            /\ Field(footer, 13) = << chs[3] >>
            /\ Field(footer, 14) = << 0, 0, 0, 2 >>
            /\ Field(footer, 16) = unique_id
            /\ Field(footer, 17) = << 0 >>
            /\ Field(footer, 18) = [i \in 1..427 |-> 0]

C8_Witness ==
    /\ pc = "footer"
    /\ raw_file_size = SizeOf(65535 * 16 * 63, 511)
    /\ Len(footer) = 512
    /\ Field(footer, 9) = << 0, 0, 0, 7, 223, 248, 33, 255 >>

\* C9: when convert is left, by return or by any exception, no file object
\* it opened is still open.
C9_HandlesClosedOnExit ==
    pc \in {"done", "failed"} => open = {}

C9_Witness ==
    /\ pc = "failed"
    /\ result = "IOError"
    /\ Len(log) = 5
    /\ log[3] = "open_raw"
    /\ pos > 0
    /\ open = {}

\* The steps of a conversion that returns.
StepOrder ==
    << "size_check", "open_vhd", "open_raw", "copy", "close_raw",
       "write_footer", "close_vhd" >>

\* The place of a step in StepOrder.
StepIndex(e) == CHOOSE k \in 1..Len(StepOrder) : StepOrder[k] = e

\* C10: the steps of one convert follow the order size check, open
\* vhd_file, open raw_file, copy, close raw_file, write footer, close
\* vhd_file; the footer is written at most once and only after the copy
\* ended without error; when opening raw_file or the copy fails, the error
\* propagates, no footer is written, and vhd_file exists holding only the
\* bytes copied so far.
C10_StepOrder ==
    pc \in {"check", "open_vhd", "open_raw", "copy", "gen_footer",
            "write_footer", "done", "failed"} =>
        /\ \A i \in 1..Len(log), j \in 1..Len(log) :
               i < j => StepIndex(log[i]) < StepIndex(log[j])
        /\ pc = "done" => log = StepOrder
        /\ (\E i \in 1..Len(log) : log[i] = "write_footer") =>
               \E j \in 1..Len(log) : log[j] = "copy"
        /\ "vhd" \in open <=>
               /\ \E i \in 1..Len(log) : log[i] = "open_vhd"
               /\ \A i \in 1..Len(log) : log[i] # "close_vhd"
        /\ "raw" \in open <=>
               /\ \E i \in 1..Len(log) : log[i] = "open_raw"
               /\ \A i \in 1..Len(log) : log[i] # "close_raw"
        /\ ( /\ \E i \in 1..Len(log) : log[i] = "open_vhd"
             /\ \A i \in 1..Len(log) : log[i] # "write_footer" ) =>
               /\ fs[vhd_file].exists
               /\ pc = "failed" \/ data_size(fs[vhd_file].data) = pos
               /\ fs[vhd_file].data =
                      read(fs0[raw_file].data, 0,
                           data_size(fs[vhd_file].data))
                  \/ (pc = "failed" /\ result = "IOError"
                      /\ \E j \in 1..Len(log) : log[j] = "copy")
        /\ ( /\ pc = "failed"
             /\ \E i \in 1..Len(log) : log[i] = "open_vhd"
             /\ \A i \in 1..Len(log) : log[i] # "copy" ) =>
               /\ result = "IOError"
               /\ \A i \in 1..Len(log) : log[i] # "write_footer"

C10_Witness ==
    /\ pc = "failed"
    /\ result = "IOError"
    /\ log = << "size_check", "open_vhd", "open_raw", "close_raw",
                "close_vhd" >>
    /\ raw_file # vhd_file
    /\ data_size(fs[vhd_file].data) = CopyLength + PartialLen
    /\ fs[vhd_file].data = read(RawImage, 0, CopyLength + PartialLen)

=============================================================================
